---- MODULE Spec2Model ----
(***************************************************************************)
(* ICRA backend: the knowledge-base build (knowledge_base.py), the RAG     *)
(* pipeline (rag_pipeline.py) and the two front ends (server.py, main.py). *)
(*                                                                         *)
(* Spec     two front-end processes (one HTTP server, one terminal demo)   *)
(*          started against the same durable ChromaDB directory.           *)
(* SpecApi  one sequential caller of get_or_create_collection(reset) and   *)
(*          query_knowledge_base(collection, query, top_k).                *)
(*                                                                         *)
(* Option values (Python None / a value) are sequences of length 0 / 1.    *)
(* A campus entry keeps the fields the pipeline reads back (id, name,      *)
(* type); location, hours, description, contact and additional_info are    *)
(* carried through the same formatting and storage steps and are read by   *)
(* no operation modelled here.                                             *)
(***************************************************************************)
EXTENDS Integers, Sequences, FiniteSets, TLC

\* ---------------------------------------------------------------- bounds
MaxCorpus == 3      \* longest campus_data.json considered
MaxStale  == 1      \* most entries in the durable index before the first run
MaxK      == 4      \* largest top_k passed by a direct caller

\* ------------------------------------------------------------- constants
TOP_K_RESULTS == 3

Procs == {1, 2}

\* ------------------------------------------------------------------ data
Records ==
    { [id |-> "lib01", name |-> "Main Library", type |-> "facility"],
      [id |-> "lab02", name |-> "Computer Lab", type |-> "lab"],
      [id |-> "reg03", name |-> "Registrar",    type |-> "office"] }

\* entries a previous version of campus_data.json left in the index
StaleRecords ==
    { [id |-> "lib01", name |-> "Old Library", type |-> "facility"],
      [id |-> "gym09", name |-> "Gym",         type |-> "facility"] }

Questions == {"when does the library open", "where is the registrar"}

SeqsUpTo(S, n) == UNION { [1..m -> S] : m \in 0..n }

UniqueIds(s) == \A i, j \in 1..Len(s) : s[i].id = s[j].id => i = j

Min(a, b) == IF a <= b THEN a ELSE b

Abs(x) == IF x < 0 THEN -x ELSE x

\* ---------------------------------------------------------- knowledge_base
\* entry_to_document: the text block, as the sequence of its labelled lines
entry_to_document(entry) ==
    << <<"Name", entry.name>>, <<"Type", entry.type>> >>

\* the metadata dict built in the loop of get_or_create_collection
MetadataOf(entry) == [name |-> entry.name, type |-> entry.type]

\* one stored item of the collection
ItemOf(entry) ==
    [id |-> entry.id, document |-> entry_to_document(entry),
     metadata |-> MetadataOf(entry)]

ItemsOf(data) == [i \in 1..Len(data) |-> ItemOf(data[i])]

\* the embedding function, reduced to one coordinate per text
EmbedDocument(doc) ==
    CASE doc[1][2] = "Main Library" -> 1
      [] doc[1][2] = "Old Library"  -> 2
      [] doc[1][2] = "Computer Lab" -> 3
      [] doc[1][2] = "Gym"          -> 3
      [] doc[1][2] = "Registrar"    -> 5

EmbedQuery(q) ==
    CASE q = "when does the library open" -> 2
      [] q = "where is the registrar"     -> 5

Distance(q, doc) == Abs(EmbedDocument(doc) - EmbedQuery(q))

RemoveAt(s, i) == [j \in 1..(Len(s) - 1) |-> IF j < i THEN s[j] ELSE s[j + 1]]

\* items by ascending distance to the query, ties in insertion order
RECURSIVE NearestFirst(_, _)
NearestFirst(items, q) ==
    IF items = <<>> THEN <<>>
    ELSE LET i == CHOOSE i \in 1..Len(items) :
                    \A j \in 1..Len(items) :
                        \/ Distance(q, items[j].document) > Distance(q, items[i].document)
                        \/ /\ Distance(q, items[j].document) = Distance(q, items[i].document)
                           /\ j >= i
         IN  <<items[i]>> \o NearestFirst(RemoveAt(items, i), q)

\* collection.query(query_texts=[query], n_results=top_k): the ranked items
QueryMut_NoSort(items, q, k) == SubSeq(items, 1, Min(k, Len(items)))

CollectionQuery(items, q, k) ==
    SubSeq(NearestFirst(items, q), 1, Min(k, Len(items)))

\* query_knowledge_base: the dict of nested lists ChromaDB returns
query_knowledge_base(items, q, k) ==
    LET hits == CollectionQuery(items, q, k)
    IN  [ids       |-> << [i \in 1..Len(hits) |-> hits[i].id] >>,
         documents |-> << [i \in 1..Len(hits) |-> hits[i].document] >>,
         metadatas |-> << [i \in 1..Len(hits) |-> hits[i].metadata] >>,
         distances |-> << [i \in 1..Len(hits) |-> Distance(q, hits[i].document)] >>]


\* ----------------------------------------------------------------- state
VARIABLES
    corpus,      \* campus_data.json: [state, data]
    store,       \* the persisted collection: [exists, items]
    apiKey,      \* config.ANTHROPIC_API_KEY: <<>> when unset
    kind,        \* per process: "server", "cli", "api" or "off"
    pc,          \* per process: position in its code
    reset,       \* per process: the reset argument of the running build
    collection,  \* per process: "None", "valid" or "stale" collection handle
    data,        \* per process: the list load_campus_data returned
    cur,         \* per process: what the running build has done so far
    log,         \* the last two finished builds of the direct caller, oldest first
    results,     \* per process: the last retrieval of generate_answer
    ragResult,   \* per process: the RAGResult of the last generate_answer
    sent,        \* per process: requests sent to Claude by the last generate_answer
    lastOutcome, \* per process: how the last messages.create ended
    asked,       \* per process: generate_answer has been called
    lastQuery    \* the last direct query_knowledge_base call of the caller

vars == <<corpus, store, apiKey, kind, pc, reset, collection, data, cur, log,
          results, ragResult, sent, lastOutcome, asked, lastQuery>>

buildVars == <<reset, data, cur, log>>
askVars   == <<results, ragResult, sent, lastOutcome, asked>>

\* the files with one record per id, in any order
UniqueCorpora == { d \in SeqsUpTo(Records, MaxCorpus) : UniqueIds(d) }

\* the files that list their first record a second time, at the end
RepeatingCorpora ==
    { Append(d, d[1]) : d \in { u \in UniqueCorpora : 0 < Len(u) /\ Len(u) < MaxCorpus } }

Corpora ==
    { [state |-> "ok", data |-> d] : d \in UniqueCorpora \cup RepeatingCorpora }
    \cup { [state |-> "unreadable", data |-> <<>>],
           [state |-> "malformed",  data |-> <<>>] }

InitStores ==
    { [exists |-> FALSE, items |-> <<>>] }
    \cup { [exists |-> TRUE, items |-> ItemsOf(d)] :
             d \in { s \in SeqsUpTo(Records \cup StaleRecords, MaxStale) : UniqueIds(s) } }

NoCall == [reset |-> FALSE, prior |-> "absent", loaded |-> FALSE, inserted |-> 0]

InitCommon ==
    /\ corpus \in Corpora
    /\ store \in InitStores
    /\ reset = [p \in Procs |-> FALSE]
    /\ collection = [p \in Procs |-> "None"]
    /\ data = [p \in Procs |-> <<>>]
    /\ cur = [p \in Procs |-> NoCall]
    /\ log = <<>>
    /\ results = [p \in Procs |-> <<>>]
    /\ ragResult = [p \in Procs |-> <<>>]
    /\ sent = [p \in Procs |-> 0]
    /\ lastOutcome = [p \in Procs |-> "none"]
    /\ asked = [p \in Procs |-> FALSE]
    /\ lastQuery = <<>>

Init ==
    /\ InitCommon
    /\ apiKey \in { <<>>, <<"sk-ant">> }
    /\ kind = [p \in Procs |-> IF p = 1 THEN "server" ELSE "cli"]
    /\ pc = [p \in Procs |-> "init"]

InitApi ==
    /\ InitCommon
    /\ apiKey = <<>>
    /\ kind = [p \in Procs |-> IF p = 1 THEN "api" ELSE "off"]
    /\ pc = [p \in Procs |-> IF p = 1 THEN "idle" ELSE "off"]

\* ---------------------------------------------- get_or_create_collection
Count(st) == Len(st.items)

PriorOf(st) ==
    IF ~st.exists THEN "absent"
    ELSE IF Count(st) = 0 THEN "empty" ELSE "populated"

\* the reset branch: delete_collection inside try/except
DeleteMut_Keep(st, r) == st

DeleteIfReset(st, r) ==
    IF r THEN [exists |-> FALSE, items |-> <<>>] ELSE st

\* client.get_or_create_collection
GetOrCreate(st) == [exists |-> TRUE, items |-> st.items]

\* a handle held on a collection that delete_collection removed goes stale
AfterDelete(st, r, h) ==
    IF r /\ st.exists /\ h = "valid" THEN "stale" ELSE h

\* lines 65-83: client, optional delete, get_or_create
OpenCollection(p, r) ==
    /\ store' = GetOrCreate(DeleteIfReset(store, r))
    /\ collection' = [q \in Procs |-> AfterDelete(store, r, collection[q])]
    /\ reset' = [reset EXCEPT ![p] = r]
    /\ cur' = [cur EXCEPT ![p] = [reset |-> r, prior |-> PriorOf(store),
                                  loaded |-> FALSE, inserted |-> 0]]
    /\ data' = [data EXCEPT ![p] = <<>>]
    /\ pc' = [pc EXCEPT ![p] = "count"]
    /\ UNCHANGED <<log>>

LastTwo(s) == IF Len(s) <= 2 THEN s ELSE SubSeq(s, Len(s) - 1, Len(s))

LogEntry(c, outcome, st) ==
    [reset |-> c.reset, prior |-> c.prior, loaded |-> c.loaded,
     inserted |-> c.inserted, outcome |-> outcome, count |-> Count(st)]

Logged(p, c, outcome, st) ==
    IF kind[p] = "api" THEN LastTwo(Append(log, LogEntry(c, outcome, st))) ELSE log

\* where the caller of get_or_create_collection goes when it returns
AfterReturn(k) == IF k = "api" THEN "idle" ELSE "serving"

\* where the caller goes when it raises: lifespan fails the startup,
\* main prints the error and calls sys.exit(1), a direct caller carries on
AfterFailureMut_Serve(k) == IF k = "api" THEN "idle" ELSE "serving"

AfterFailure(k) == IF k = "api" THEN "idle" ELSE "failed"

\* line 115 and the assignment of the returned handle by the caller
Return(p, c, st) ==
    /\ pc' = [pc EXCEPT ![p] = AfterReturn(kind[p])]
    /\ collection' = [collection EXCEPT ![p] = "valid"]
    /\ log' = Logged(p, c, "returned", st)

Raise(p, c, st) ==
    /\ pc' = [pc EXCEPT ![p] = AfterFailure(kind[p])]
    /\ collection' = collection
    /\ log' = Logged(p, c, "raised", st)

\* line 86: if collection.count() == 0
CountMut_Always(p) ==
    /\ pc[p] = "count"
    /\ pc' = [pc EXCEPT ![p] = "load"]
    /\ UNCHANGED <<store, collection, log, reset, data, cur>>

CountMut_Locked(p) ==
    /\ pc[p] = "count"
    /\ \A q \in Procs \ {p} : pc[q] \notin {"load", "add"}
    /\ IF Count(store) = 0
       THEN /\ pc' = [pc EXCEPT ![p] = "load"]
            /\ UNCHANGED <<collection, log>>
       ELSE Return(p, cur[p], store)
    /\ UNCHANGED <<store, reset, data, cur>>

CountCheck(p) ==
    /\ pc[p] = "count"
    /\ IF Count(store) = 0
       THEN /\ pc' = [pc EXCEPT ![p] = "load"]
            /\ UNCHANGED <<collection, log>>
       ELSE Return(p, cur[p], store)
    /\ UNCHANGED <<store, reset, data, cur>>

\* lines 88-102: load_campus_data and the loop that builds the three lists
LoadData(p) ==
    /\ pc[p] = "load"
    /\ LET c == [cur[p] EXCEPT !.loaded = TRUE]
       IN  IF corpus.state = "ok"
           THEN /\ data' = [data EXCEPT ![p] = corpus.data]
                /\ cur' = [cur EXCEPT ![p] = c]
                /\ pc' = [pc EXCEPT ![p] = "add"]
                /\ UNCHANGED <<collection, log>>
           ELSE /\ Raise(p, c, store)
                /\ cur' = [cur EXCEPT ![p] = c]
                /\ data' = data
    /\ UNCHANGED <<store, reset>>

StoredIds(st) == { st.items[i].id : i \in 1..Len(st.items) }

\* the items of a batch whose id the collection does not hold yet
RECURSIVE NewItems(_, _)
NewItems(batch, ids) ==
    IF batch = <<>> THEN <<>>
    ELSE IF batch[1].id \in ids THEN NewItems(Tail(batch), ids)
         ELSE <<batch[1]>> \o NewItems(Tail(batch), ids)

\* collection.add: "rejected" or the items after the insert.  strict is a
\* ChromaDB that refuses an empty batch and ids already stored; a ChromaDB
\* that is not strict accepts the empty batch and skips the stored ids.
\* Every version refuses a batch that repeats an id.
AddOutcome(st, batch, strict) ==
    IF ~UniqueIds(batch) THEN <<>>
    ELSE IF batch = <<>> THEN (IF strict THEN <<>> ELSE <<st.items>>)
    ELSE IF \E i \in 1..Len(batch) : batch[i].id \in StoredIds(st)
         THEN (IF strict THEN <<>> ELSE <<st.items \o NewItems(batch, StoredIds(st))>>)
         ELSE <<st.items \o batch>>

\* lines 104-109: the batch insert, then the return
AddBatch(p, strict) ==
    /\ pc[p] = "add"
    /\ LET out == AddOutcome(store, ItemsOf(data[p]), strict)
       IN  IF out = <<>>
           THEN /\ Raise(p, cur[p], store)
                /\ UNCHANGED <<store, cur>>
           ELSE LET st == [store EXCEPT !.items = out[1]]
                    c  == [cur[p] EXCEPT !.inserted = Len(out[1]) - Count(store)]
                IN  /\ store' = st
                    /\ cur' = [cur EXCEPT ![p] = c]
                    /\ Return(p, c, st)
    /\ UNCHANGED <<reset, data>>

get_or_create_collection(p) ==
    \/ CountCheck(p)
    \/ LoadData(p)
    \/ \E strict \in BOOLEAN : AddBatch(p, strict)


\* ------------------------------------------------------------ rag_pipeline
NO_INFO    == "I couldn't find any relevant information in the campus knowledge base."
NO_KEY     == "ERROR: ANTHROPIC_API_KEY is not set."
BAD_KEY    == "ERROR: Invalid Anthropic API key."
RATE_LIMIT == "ERROR: Rate limit exceeded."
API_ERROR  == "ERROR: Anthropic API error"
GENERATED  == "response.content[0].text"

\* how client.messages.create and the read of response.content[0].text end:
\* a text, one of the three anthropic error classes, or an exception that is
\* no anthropic.APIError (IndexError on an empty content list)
Outcomes == {"ok", "auth", "rate", "api", "index_error"}

\* line 89: if not docs
NoDocsMut_Never(docs) == FALSE

NoDocs(docs) == docs = <<>>

\* line 118: if not config.ANTHROPIC_API_KEY
MissingKeyMut_Never(key) == FALSE

MissingKey(key) == key = <<>>

\* lines 140-150: the except clauses
CaughtMut_NoApiError(outcome) == outcome \in {"auth", "rate"}

Caught(outcome) == outcome \in {"auth", "rate", "api"}

AnswerText(outcome) ==
    CASE outcome = "ok"   -> GENERATED
      [] outcome = "auth" -> BAD_KEY
      [] outcome = "rate" -> RATE_LIMIT
      [] outcome = "api"  -> API_ERROR

\* lines 152-155: one source per retrieved id
SourcesMut_Reversed(ids, metadatas) ==
    [i \in 1..Len(ids) |->
        [id |-> ids[Len(ids) + 1 - i], name |-> metadatas[i].name,
         type |-> metadatas[i].type]]

BuildSources(ids, metadatas) ==
    [i \in 1..Len(ids) |->
        [id |-> ids[i], name |-> metadatas[i].name, type |-> metadatas[i].type]]

RAGResult(answer, sources, docs, distances) ==
    [answer |-> answer, sources |-> sources, retrieved_docs |-> docs,
     distances |-> distances]

\* where a front end goes when generate_answer raises: the server answers
\* the request with an error and keeps serving, main ends with a traceback
AfterAskError(k) == IF k = "server" THEN "serving" ELSE "exited"

\* generate_answer lines 81-126: retrieve, the two early returns
Retrieve(p, q, newStore) ==
    /\ pc[p] = "serving"
    /\ store' = newStore
    /\ sent' = [sent EXCEPT ![p] = 0]
    /\ lastOutcome' = [lastOutcome EXCEPT ![p] = "none"]
    /\ asked' = [asked EXCEPT ![p] = TRUE]
    /\ IF collection[p] # "valid" \/ ~store.exists
       THEN /\ results' = [results EXCEPT ![p] = <<>>]
            /\ ragResult' = [ragResult EXCEPT ![p] = <<>>]
            /\ pc' = [pc EXCEPT ![p] = AfterAskError(kind[p])]
       ELSE LET res  == query_knowledge_base(store.items, q, TOP_K_RESULTS)
                docs == res.documents[1]
            IN  /\ results' = [results EXCEPT ![p] = <<res>>]
                /\ IF NoDocs(docs)
                   THEN /\ ragResult' = [ragResult EXCEPT ![p] =
                               <<RAGResult(NO_INFO, <<>>, <<>>, <<>>)>>]
                        /\ pc' = pc
                   ELSE IF MissingKey(apiKey)
                   THEN /\ ragResult' = [ragResult EXCEPT ![p] =
                               <<RAGResult(NO_KEY, <<>>, docs, res.distances[1])>>]
                        /\ pc' = pc
                   ELSE /\ ragResult' = [ragResult EXCEPT ![p] = <<>>]
                        /\ pc' = [pc EXCEPT ![p] = "gen"]
    /\ UNCHANGED <<corpus, apiKey, kind, collection, buildVars, lastQuery>>

AskMut_Evict(p, q) ==
    Retrieve(p, q, [store EXCEPT !.items = <<>>])

AskRetrieve(p, q) == Retrieve(p, q, store)

\* generate_answer lines 128-162: the request, the except clauses, the result
Generate(p, outcome) ==
    /\ pc[p] = "gen"
    /\ sent' = [sent EXCEPT ![p] = sent[p] + 1]
    /\ lastOutcome' = [lastOutcome EXCEPT ![p] = outcome]
    /\ IF outcome = "ok" \/ Caught(outcome)
       THEN LET res == results[p][1]
            IN  /\ ragResult' = [ragResult EXCEPT ![p] =
                       <<RAGResult(AnswerText(outcome),
                                   BuildSources(res.ids[1], res.metadatas[1]),
                                   res.documents[1], res.distances[1])>>]
                /\ pc' = [pc EXCEPT ![p] = "serving"]
       ELSE /\ ragResult' = [ragResult EXCEPT ![p] = <<>>]
            /\ pc' = [pc EXCEPT ![p] = AfterAskError(kind[p])]
    /\ UNCHANGED <<corpus, store, apiKey, kind, collection, buildVars,
                   results, asked, lastQuery>>

generate_answer(p) ==
    \/ \E q \in Questions : AskRetrieve(p, q)
    \/ \E outcome \in Outcomes : Generate(p, outcome)

\* ------------------------------------------------------------ front ends
\* server.py lifespan / main.py main: the startup call, reset left at False
Startup(p) ==
    /\ pc[p] = "init"
    /\ OpenCollection(p, FALSE)
    /\ UNCHANGED <<corpus, apiKey, kind, askVars, lastQuery>>

Build(p) ==
    /\ get_or_create_collection(p)
    /\ UNCHANGED <<corpus, apiKey, kind, askVars, lastQuery>>

\* main.py: 'quit', 'exit', 'q', EOF or Ctrl-C at the prompt; the loop ends
\* and the last result goes with it
Quit(p) ==
    /\ pc[p] = "serving"
    /\ kind[p] = "cli"
    /\ pc' = [pc EXCEPT ![p] = "exited"]
    /\ results' = [results EXCEPT ![p] = <<>>]
    /\ ragResult' = [ragResult EXCEPT ![p] = <<>>]
    /\ sent' = [sent EXCEPT ![p] = 0]
    /\ lastOutcome' = [lastOutcome EXCEPT ![p] = "none"]
    /\ UNCHANGED <<corpus, store, apiKey, kind, collection, buildVars,
                   asked, lastQuery>>

\* ----------------------------------------------------------- direct caller
ApiBuild(p, r) ==
    /\ pc[p] = "idle"
    /\ OpenCollection(p, r)
    /\ UNCHANGED <<corpus, apiKey, kind, askVars, lastQuery>>

ApiQuery(p, q, k) ==
    /\ pc[p] = "idle"
    /\ lastQuery' =
          IF collection[p] = "valid" /\ store.exists
          THEN <<[k |-> k, n |-> Count(store), q |-> q,
                  res |-> query_knowledge_base(store.items, q, k)]>>
          ELSE <<>>
    /\ UNCHANGED <<corpus, store, apiKey, kind, pc, collection, buildVars, askVars>>

\* ------------------------------------------------------------------ specs
Next ==
    \E p \in Procs :
        \/ Startup(p)
        \/ Build(p)
        \/ generate_answer(p)
        \/ Quit(p)

Spec == Init /\ [][Next]_vars

NextApi ==
    \E p \in Procs :
        \/ \E r \in BOOLEAN : ApiBuild(p, r)
        \/ Build(p)
        \/ \E q \in Questions, k \in 1..MaxK : ApiQuery(p, q, k)

SpecApi == InitApi /\ [][NextApi]_vars

TypeOK ==
    /\ corpus \in Corpora
    /\ store.exists \in BOOLEAN
    /\ \A p \in Procs :
        /\ pc[p] \in {"init", "count", "load", "add", "serving", "gen",
                      "failed", "exited", "idle", "off"}
        /\ collection[p] \in {"None", "valid", "stale"}
        /\ sent[p] \in 0..1
        /\ lastOutcome[p] \in Outcomes \cup {"none"}
    /\ Len(log) <= 2


\* ----------------------------------------------------------------- claims
Last(s) == s[Len(s)]

ReadableUnique == corpus.state = "ok" /\ UniqueIds(corpus.data)

\* two finished calls with reset=false, one right after the other
TwoPlainCalls ==
    /\ pc[1] = "idle"
    /\ Len(log) = 2
    /\ ~log[1].reset
    /\ ~log[2].reset

\* the first call populates an index it found absent or empty, the second
\* call loads nothing, inserts nothing and leaves the count alone
BuiltOnce ==
    /\ log[1].outcome = "returned"
    /\ log[1].prior # "populated" =>
          log[1].loaded /\ log[1].inserted = Len(corpus.data)
    /\ log[2].outcome = "returned"
    /\ ~log[2].loaded
    /\ log[2].inserted = 0
    /\ log[2].count = log[1].count

\* C1 as stated: for every corpus with unique ids, the empty corpus
\* included, two calls of get_or_create_collection(reset=false) in sequence
\* load and insert once, and the second call finds the index populated.
C1_Original == (ReadableUnique /\ TwoPlainCalls) => BuiltOnce

\* C1 amended: for every non-empty corpus with unique ids, two calls of
\* get_or_create_collection(reset=false) in sequence load and insert once:
\* the second call finds the index populated, inserts nothing, and the
\* count after it equals the count after the first.
C1_BuildOnce ==
    (ReadableUnique /\ corpus.data # <<>> /\ TwoPlainCalls) => BuiltOnce

C1_Witness ==
    /\ ReadableUnique
    /\ Len(corpus.data) >= 2
    /\ TwoPlainCalls
    /\ log[1].loaded
    /\ log[1].inserted = Len(corpus.data)
    /\ ~log[2].loaded
    /\ log[2].count = Len(corpus.data)

EmptyDocs(p) == results[p] # <<>> /\ results[p][1].documents[1] = <<>>

SomeDocs(p) == results[p] # <<>> /\ results[p][1].documents[1] # <<>>

\* C2: when retrieval returns no document, generate_answer returns the
\* fixed no-information answer with empty sources, documents and distances
\* and sends nothing to Claude, with or without an API key.
C2_EmptyRetrieval ==
    \A p \in Procs :
        EmptyDocs(p) =>
            /\ pc[p] # "gen"
            /\ sent[p] = 0
            /\ lastOutcome[p] = "none"
            /\ ragResult[p] = << [answer |-> NO_INFO, sources |-> <<>>,
                                  retrieved_docs |-> <<>>, distances |-> <<>>] >>

C2_Witness ==
    \E p \in Procs : EmptyDocs(p) /\ apiKey # <<>> /\ ragResult[p] # <<>>

\* C3: when retrieval returns at least one document and the API key is not
\* set, generate_answer returns the missing-key answer with empty sources
\* and sends nothing to Claude.
C3_MissingKey ==
    \A p \in Procs :
        (SomeDocs(p) /\ apiKey = <<>>) =>
            /\ pc[p] # "gen"
            /\ sent[p] = 0
            /\ lastOutcome[p] = "none"
            /\ ragResult[p] # <<>>
            /\ ragResult[p][1].answer = NO_KEY
            /\ ragResult[p][1].sources = <<>>

C3_Witness ==
    \E p \in Procs :
        /\ SomeDocs(p)
        /\ apiKey = <<>>
        /\ Len(results[p][1].documents[1]) >= 2
        /\ ragResult[p] # <<>>

\* C4 as stated: however the generation call fails, generate_answer returns
\* an Answer and raises nothing.
C4_Original ==
    \A p \in Procs : lastOutcome[p] # "none" => ragResult[p] # <<>>

\* C4 amended: when the generation call fails with an authentication error,
\* a rate-limit error or any other anthropic API error, generate_answer
\* returns an Answer that carries the message of that error class; a
\* failure that is no anthropic API error propagates to the caller.
C4_ClassifiedFailures ==
    \A p \in Procs :
        /\ lastOutcome[p] \in {"auth", "rate", "api"} =>
              /\ ragResult[p] # <<>>
              /\ ragResult[p][1].answer =
                    (CASE lastOutcome[p] = "auth" -> BAD_KEY
                       [] lastOutcome[p] = "rate" -> RATE_LIMIT
                       [] lastOutcome[p] = "api"  -> API_ERROR)
              /\ pc[p] = "serving"
        /\ lastOutcome[p] = "index_error" => ragResult[p] = <<>>

C4_Witness ==
    \E p \in Procs : lastOutcome[p] = "api" /\ ragResult[p] # <<>>

\* C5: when the generation call was made and ended with a text or a
\* classified error, the Answer has one source per retrieved entry, in
\* retrieval order, with that entry's id, name and type, and carries the
\* retrieved documents and distances in the same order.
C5_Sources ==
    \A p \in Procs :
        lastOutcome[p] \in {"ok", "auth", "rate", "api"} =>
            /\ results[p] # <<>>
            /\ ragResult[p] # <<>>
            /\ LET res == results[p][1]
                   ans == ragResult[p][1]
               IN  /\ Len(ans.sources) = Len(res.ids[1])
                   /\ Len(res.ids[1]) = Len(res.documents[1])
                   /\ \A i \in 1..Len(res.ids[1]) :
                        /\ ans.sources[i].id = res.ids[1][i]
                        /\ ans.sources[i].name = res.metadatas[1][i].name
                        /\ ans.sources[i].type = res.metadatas[1][i].type
                        /\ \E j \in 1..Len(store.items) :
                              /\ store.items[j].id = ans.sources[i].id
                              /\ store.items[j].metadata.name = ans.sources[i].name
                              /\ store.items[j].metadata.type = ans.sources[i].type
                              /\ store.items[j].document = ans.retrieved_docs[i]
                   /\ ans.retrieved_docs = res.documents[1]
                   /\ ans.distances = res.distances[1]

C5_Witness ==
    \E p \in Procs :
        /\ lastOutcome[p] = "rate"
        /\ ragResult[p] # <<>>
        /\ Len(ragResult[p][1].sources) = 3
        /\ ragResult[p][1].sources[1].id # ragResult[p][1].sources[3].id

C7_BuildBeforeAsk ==
    \A p \in Procs :
        /\ (asked[p] \/ pc[p] \in {"serving", "gen"}) => collection[p] = "valid"
        /\ pc[p] = "failed" =>
              /\ ~asked[p]
              /\ collection[p] = "None"
              /\ \A q \in Questions : ~ENABLED AskRetrieve(p, q)

C7_Witness ==
    /\ asked[1]
    /\ ragResult[1] # <<>>
    /\ pc[2] = "failed"

C9_CheckThenInsertNotAtomic ==
    \A p \in Procs :
        (/\ pc[p] = "count"
         /\ Count(store) = 0
         /\ \E q \in Procs \ {p} : pc[q] \in {"load", "add"}) =>
            ENABLED (CountCheck(p) /\ pc'[p] = "load")

\* both processes saw count() == 0, loaded the corpus and ran the insert
C9_Witness ==
    /\ ReadableUnique
    /\ Len(corpus.data) >= 2
    /\ \A p \in Procs :
          /\ pc[p] \in {"serving", "failed"}
          /\ cur[p].prior # "populated"
          /\ cur[p].loaded
    /\ \E p \in Procs : cur[p].inserted = Len(corpus.data)
    /\ Count(store) = Len(corpus.data)

\* C10: a step that is no step of a build leaves the index as it is; in
\* particular no generate_answer step, on any of its paths and whatever
\* the other process is doing, changes the entries or their count.
C10_AsksDoNotMutate ==
    [][ (\A p \in Procs :
            pc[p] \in {"init", "count", "load", "add"} => pc'[p] = pc[p])
        => store' = store ]_vars

C10_Witness ==
    /\ pc[1] = "gen"
    /\ pc[2] = "gen"
    /\ Count(store) >= 2
    /\ asked[1] /\ asked[2]

====
